---- MODULE Spec2Model ----
(***************************************************************************)
(* A model of throttled-queue (throttledQueue.ts, version 3): the closure  *)
(* state of one queue (queue, lastIntervalStart, numPerInterval, timeout), *)
(* the event loop it runs on (the clock, the outstanding timers, the       *)
(* microtask queue), the work functions in flight, the per-execution state *)
(* objects that hold the retry budgets, and the futures enqueue returns.   *)
(***************************************************************************)
EXTENDS Integers, Sequences, FiniteSets, TLC

\* ------------------------------------------------------------------ bounds
\* Number of enqueue calls made by the user of the queue.
MaxCalls == 3
\* Date.now() when the queue is built; larger than every interval modelled,
\* as the wall clock (milliseconds since 1970) is for any real interval.
Epoch == 4
\* The clock advances one millisecond at a time up to Epoch + Horizon; past
\* that it only jumps to the next timer that is due.
Horizon == 5
\* How many milliseconds before its due time a timer may fire.
MaxDrift == 1
\* How many RetryErrors the work functions of one run raise, in total.
MaxRetryErrors == 1
\* The same, in the runs that exhaust a retry budget.
MaxBudgetErrors == 2
\* Enqueue calls of a run whose work raises RetryErrors without limit.
MaxLiveCalls == 2
\* How many RetryErrors the work functions of such a run raise, in total.
MaxLiveErrors == 3

\* ------------------------------------------------------- program constants
DEFAULT_WAIT == 500
DEFAULT_RETRY_LIMIT == 30
\* The value of the JavaScript number Infinity: larger than every count the
\* model reaches, and absorbing under increment (see Inc).
Infinity == 1000000
\* The value of `timeout` when no timer is scheduled (undefined).
NoTimer == 0

Max(a, b) == IF a >= b THEN a ELSE b
Min(a, b) == IF a <= b THEN a ELSE b
\* Math.ceil(a / b) for a >= 0, b >= 1, b possibly Infinity.
Ceil(a, b) == IF b = Infinity THEN 0 ELSE (a + b - 1) \div b
\* n++ on a JavaScript number.
Inc(n) == IF n = Infinity THEN Infinity ELSE n + 1
Has(r, f) == f \in DOMAIN r

\* ------------------------------------------------------------ construction
\* The destructuring defaults of throttledQueue(options).
optInterval(o) == IF Has(o, "interval") THEN o.interval ELSE 0
optMaxPerInterval(o) == IF Has(o, "maxPerInterval") THEN o.maxPerInterval ELSE Infinity
optEvenlySpaced(o) == IF Has(o, "evenlySpaced") THEN o.evenlySpaced ELSE FALSE
optMaxRetries(o) == IF Has(o, "maxRetries") THEN o.maxRetries ELSE DEFAULT_RETRY_LIMIT
optMaxRetriesWithPauses(o) ==
  IF Has(o, "maxRetriesWithPauses") THEN o.maxRetriesWithPauses ELSE DEFAULT_RETRY_LIMIT

\* validate that takes the boundary values for errors: an interval of 0 and
\* retry limits of 0 are refused.
validate_strict(o) ==
  IF optMaxPerInterval(o) < 1 THEN "\"maxPerInterval\" must be a positive integer."
  ELSE IF optInterval(o) <= 0 THEN "\"interval\" cannot be negative."
  ELSE IF optMaxRetries(o) <= 0 THEN "\"maxRetries\" cannot be negative."
  ELSE IF optMaxRetriesWithPauses(o) <= 0
  THEN "\"maxRetriesWithPauses\" cannot be negative."
  ELSE ""

\* The validation at the head of throttledQueue: the error thrown, or "".
validate(o) ==
  IF optMaxPerInterval(o) < 1 THEN "\"maxPerInterval\" must be a positive integer."
  ELSE IF optInterval(o) < 0 THEN "\"interval\" cannot be negative."
  ELSE IF optMaxRetries(o) < 0 THEN "\"maxRetries\" cannot be negative."
  ELSE IF optMaxRetriesWithPauses(o) < 0 THEN "\"maxRetriesWithPauses\" cannot be negative."
  ELSE ""

\* spread that rounds the interval down.
spread_floor(o) ==
  [f \in DOMAIN o \cup {"interval", "maxPerInterval", "evenlySpaced"} |->
     CASE f = "interval" -> optInterval(o) \div optMaxPerInterval(o)
       [] f = "maxPerInterval" -> 1
       [] f = "evenlySpaced" -> FALSE
       [] OTHER -> o[f]]

\* spread that leaves maxPerInterval as it was given.
spread_keepsMax(o) ==
  [f \in DOMAIN o \cup {"interval", "maxPerInterval", "evenlySpaced"} |->
     CASE f = "interval" -> Ceil(optInterval(o), optMaxPerInterval(o))
       [] f = "maxPerInterval" -> optMaxPerInterval(o)
       [] f = "evenlySpaced" -> FALSE
       [] OTHER -> o[f]]

\* { ...options, interval: ceil(interval / maxPerInterval), maxPerInterval: 1,
\*   evenlySpaced: false }
spread(o) ==
  [f \in DOMAIN o \cup {"interval", "maxPerInterval", "evenlySpaced"} |->
     CASE f = "interval" -> Ceil(optInterval(o), optMaxPerInterval(o))
       [] f = "maxPerInterval" -> 1
       [] f = "evenlySpaced" -> FALSE
       [] OTHER -> o[f]]

\* The constants a queue's closure holds: `options` is the object the closure
\* reads options.interval from, the others are the destructured values.
closure(o) ==
  [ok |-> TRUE,
   options |-> o,
   interval |-> optInterval(o),
   maxPerInterval |-> optMaxPerInterval(o),
   maxRetries |-> optMaxRetries(o),
   maxRetriesWithPauses |-> optMaxRetriesWithPauses(o)]

\* throttledQueue(options): a failed construction, or the closure.
throttledQueue(o) ==
  IF validate(o) # "" THEN [ok |-> FALSE, error |-> validate(o)]
  ELSE IF optEvenlySpaced(o) THEN closure(spread(o))
  ELSE closure(o)

\* ------------------------------------------------------------------- state
VARIABLES
  options,            \* the options object passed to throttledQueue
  self,               \* what throttledQueue(options) returned: closure constants
  now,                \* Date.now()
  queue,              \* `queue`: the pending callbacks, in order
  lastIntervalStart,  \* `lastIntervalStart`
  numPerInterval,     \* `numPerInterval`
  timeout,            \* `timeout`: the handle of the wake-up timer, or NoTimer
  timers,             \* event loop: outstanding setTimeout(dequeue, ..) timers
  sleeping,           \* event loop: outstanding setTimeout(r, ..) of plain retries
  micro,              \* event loop: admitted callbacks whose work has not started
  running,            \* work functions invoked and not yet settled
  bag,                \* state objects: the INTERNAL_STATE each one carries
  future,             \* the promise each user enqueue call returned
  invoked,            \* per work function: how many times it was invoked
  retryErrors,        \* per work function: how many RetryErrors it raised
  pauseErrors,        \* per work function: how many of them with pauseQueue
  calls,              \* number of user enqueue calls made
  given,              \* per user call: the state object passed, or created for it
  nextSeq,            \* number of enqueue invocations made (retries included)
  admitted,           \* history: the admissions, in order
  windowId,           \* history: number of assignments of lastIntervalStart
  pausedUntil,        \* history: the latest end of the pauses raised so far
  otherQueue          \* the closure of a second throttledQueue(..) call, if any

vars == <<options, self, now, queue, lastIntervalStart, numPerInterval,
          timeout, timers, sleeping, micro, running, bag, future, invoked,
          retryErrors, pauseErrors, calls, given, nextSeq, admitted, windowId, pausedUntil,
          otherQueue>>

Calls == 1..MaxCalls
\* State objects: Shared is one object the user may pass to several enqueue
\* calls; object e is the `{}` enqueue call e creates when it is passed none.
Shared == 0
Objects == {Shared} \cup Calls

\* A state object without the INTERNAL_STATE key.
NoInternal == [set |-> FALSE, maxRetries |-> 0, maxRetriesWithPauses |-> 0]
\* The program has built one queue only.
NoQueue == [name |-> 0]
\* A promise that is not settled.
Pending == [status |-> "pending"]

\* The closure state and the event-loop structures its code touches, as one
\* record, so that enqueue and dequeue are functions from state to state.
Q ==
  [queue |-> queue, lastIntervalStart |-> lastIntervalStart,
   numPerInterval |-> numPerInterval, timeout |-> timeout, timers |-> timers,
   micro |-> micro, bag |-> bag, nextSeq |-> nextSeq, admitted |-> admitted,
   windowId |-> windowId, pausedUntil |-> pausedUntil]

Commit(s) ==
  /\ queue' = s.queue
  /\ lastIntervalStart' = s.lastIntervalStart
  /\ numPerInterval' = s.numPerInterval
  /\ timeout' = s.timeout
  /\ timers' = s.timers
  /\ micro' = s.micro
  /\ bag' = s.bag
  /\ nextSeq' = s.nextSeq
  /\ admitted' = s.admitted
  /\ windowId' = s.windowId
  /\ pausedUntil' = s.pausedUntil

\* -------------------------------------------------------------- event loop
\* timeout = setTimeout(dequeue, delay) at time t: a negative delay is 0.
setTimeoutDequeue(s, delay, t) ==
  LET id == CHOOSE i \in 1..(Cardinality(s.timers) + 1) : \A x \in s.timers : x.id # i
  IN [s EXCEPT !.timers = @ \cup {[id |-> id, due |-> t + Max(delay, 0)]},
               !.timeout = id]

\* clearTimeout that cancels nothing.
clearTimeout_forgets(s, id) == s

\* clearTimeout(id)
clearTimeout(s, id) == [s EXCEPT !.timers = {x \in @ : x.id # id}]

\* callback(): Promise.resolve().then(retryableFn) queues the work as a
\* microtask; the admission is recorded in the history.
callback(s, cb, t) ==
  [s EXCEPT !.micro = Append(@, cb),
            !.admitted = Append(@, [seq |-> cb.seq, fn |-> cb.fn, at |-> t,
                                    window |-> s.windowId,
                                    start |-> s.lastIntervalStart])]

\* newInterval without the reset of the counter.
newInterval_keepsCount(s, t) ==
  [s EXCEPT !.lastIntervalStart = t, !.windowId = @ + 1]

\* lastIntervalStart = t; numPerInterval = 0
newInterval(s, t) ==
  [s EXCEPT !.lastIntervalStart = t, !.numPerInterval = 0, !.windowId = @ + 1]

\* ----------------------------------------------------------------- enqueue
\* initInternalState that ignores the options: the default limits are stored.
initInternalState_defaults(s, state) ==
  IF s.bag[state].set THEN s
  ELSE [s EXCEPT !.bag[state] = [set |-> TRUE, maxRetries |-> DEFAULT_RETRY_LIMIT,
                                 maxRetriesWithPauses |-> DEFAULT_RETRY_LIMIT]]

\* if (!(INTERNAL_STATE in state)) Object.assign(state, {[INTERNAL_STATE]: ..})
initInternalState(s, state) ==
  IF s.bag[state].set THEN s
  ELSE [s EXCEPT !.bag[state] = [set |-> TRUE, maxRetries |-> self.maxRetries,
                                 maxRetriesWithPauses |-> self.maxRetriesWithPauses]]

\* rollover without the test that no timer is pending.
rollover_ignoresTimer(s, t) ==
  IF self.interval # 0 /\ (t - s.lastIntervalStart) > self.interval
  THEN newInterval(s, t)
  ELSE s

\* The admission check without the rollover: an idle queue keeps its window.
rollover_never(s, t) == s

\* The window rollover at the head of the admission check.
rollover(s, t) ==
  IF s.timeout = NoTimer /\ self.interval # 0 /\ (t - s.lastIntervalStart) > self.interval
  THEN newInterval(s, t)
  ELSE s

\* admitOrQueue with the capacity test off by one (<= for <).
admitOrQueue_offByOne(s, cb, t) ==
  LET s1 == [s EXCEPT !.numPerInterval = Inc(@)]
  IN IF s.numPerInterval <= self.maxPerInterval
     THEN callback(s1, cb, t)
     ELSE LET s2 == [s1 EXCEPT !.queue = Append(@, cb)]
          IN IF s2.timeout = NoTimer
             THEN setTimeoutDequeue(s2, s2.lastIntervalStart + self.interval - t, t)
             ELSE s2

\* admitOrQueue that counts admissions only: a queued item leaves the
\* counter as it was.
admitOrQueue_countsAdmitted(s, cb, t) ==
  IF s.numPerInterval < self.maxPerInterval
  THEN callback([s EXCEPT !.numPerInterval = Inc(@)], cb, t)
  ELSE LET s2 == [s EXCEPT !.queue = Append(@, cb)]
       IN IF s2.timeout = NoTimer
          THEN setTimeoutDequeue(s2, s2.lastIntervalStart + self.interval - t, t)
          ELSE s2

\* admitOrQueue whose timer waits a whole interval from the enqueue call,
\* not the rest of the current window.
admitOrQueue_fromNow(s, cb, t) ==
  LET s1 == [s EXCEPT !.numPerInterval = Inc(@)]
  IN IF s.numPerInterval < self.maxPerInterval
     THEN callback(s1, cb, t)
     ELSE LET s2 == [s1 EXCEPT !.queue = Append(@, cb)]
          IN IF s2.timeout = NoTimer
             THEN setTimeoutDequeue(s2, self.interval, t)
             ELSE s2

\* if (numPerInterval++ < maxPerInterval) callback(); else { queue.push(..) .. }
admitOrQueue(s, cb, t) ==
  LET s1 == [s EXCEPT !.numPerInterval = Inc(@)]
  IN IF s.numPerInterval < self.maxPerInterval
     THEN callback(s1, cb, t)
     ELSE LET s2 == [s1 EXCEPT !.queue = Append(@, cb)]
          IN IF s2.timeout = NoTimer
             THEN setTimeoutDequeue(s2, s2.lastIntervalStart + self.interval - t, t)
             ELSE s2

\* enqueue whose callback settles the promise of the first call, as if
\* `resolve` were captured once for the queue.
enqueue_firstResolve(s, fn, state, owner, t) ==
  LET s1 == initInternalState(s, state)
      s2 == [s1 EXCEPT !.nextSeq = @ + 1]
      cb == [fn |-> fn, state |-> state, owner |-> 1, seq |-> s2.nextSeq]
  IN admitOrQueue(rollover(s2, t), cb, t)

\* enqueue whose work receives one state object kept by the queue, whatever
\* state the call is given.
enqueue_sharedState(s, fn, state, owner, t) ==
  LET s1 == initInternalState(s, Shared)
      s2 == [s1 EXCEPT !.nextSeq = @ + 1]
      cb == [fn |-> fn, state |-> Shared, owner |-> owner, seq |-> s2.nextSeq]
  IN admitOrQueue(rollover(s2, t), cb, t)

\* enqueue(fn, state) at time t; `owner` is the user call whose promise the
\* new promise settles (a retry's promise is returned to the promise chain of
\* the call that made the first attempt).
enqueue(s, fn, state, owner, t) ==
  LET s1 == initInternalState(s, state)
      s2 == [s1 EXCEPT !.nextSeq = @ + 1]
      cb == [fn |-> fn, state |-> state, owner |-> owner, seq |-> s2.nextSeq]
  IN admitOrQueue(rollover(s2, t), cb, t)

\* ----------------------------------------------------------------- dequeue
\* A splice without its count: every pending callback is removed.
spliced_all(s) == s.queue

\* queue.splice(0, maxPerInterval): the callbacks removed.
spliced(s) == SubSeq(s.queue, 1, Min(Len(s.queue), self.maxPerInterval))

RECURSIVE invokeAll(_, _, _)
\* for (const callback of batch) { numPerInterval++; callback(); }
invokeAll(s, batch, t) ==
  IF batch = <<>> THEN s
  ELSE invokeAll(callback([s EXCEPT !.numPerInterval = Inc(@)], Head(batch), t),
                 Tail(batch), t)

\* A slice for the splice: the callbacks taken stay in the queue.
unspliced_keepsAll(s) == s.queue

\* What queue.splice(0, maxPerInterval) leaves in the queue.
unspliced(s) == SubSeq(s.queue, Len(spliced(s)) + 1, Len(s.queue))

\* tooEarly without the self-adjustment: an early firing is taken as due.
tooEarly_never(s, t) == FALSE

\* tooEarly that lets a firing one millisecond before the end pass as due.
tooEarly_lenient(s, t) == t + 1 < s.lastIntervalStart + self.interval

\* now < intervalEnd: the timer was called too early.
tooEarly(s, t) == t < s.lastIntervalStart + self.interval

\* dequeue that does not schedule the next firing when items remain.
dequeue_noNextTimer(s, t) ==
  LET s0 == [s EXCEPT !.timeout = NoTimer]
  IN IF tooEarly(s0, t)
     THEN setTimeoutDequeue(s0, s0.lastIntervalStart + self.interval - t, t)
     ELSE LET batch == spliced(s0)
              s1 == newInterval(s0, t)
              s2 == [s1 EXCEPT !.queue = unspliced(s0)]
          IN invokeAll(s2, batch, t)

\* dequeue that sets the next timer whether or not items remain.
dequeue_alwaysNextTimer(s, t) ==
  LET s0 == [s EXCEPT !.timeout = NoTimer]
  IN IF tooEarly(s0, t)
     THEN setTimeoutDequeue(s0, s0.lastIntervalStart + self.interval - t, t)
     ELSE LET batch == spliced(s0)
              s1 == newInterval(s0, t)
              s2 == [s1 EXCEPT !.queue = unspliced(s0)]
              s3 == invokeAll(s2, batch, t)
          IN setTimeoutDequeue(s3, self.interval, t)

\* dequeue whose early firing waits a whole interval again, not the rest of
\* the current one.
dequeue_fullDelay(s, t) ==
  LET s0 == [s EXCEPT !.timeout = NoTimer]
  IN IF tooEarly(s0, t)
     THEN setTimeoutDequeue(s0, self.interval, t)
     ELSE LET batch == spliced(s0)
              s1 == newInterval(s0, t)
              s2 == [s1 EXCEPT !.queue = unspliced(s0)]
              s3 == invokeAll(s2, batch, t)
          IN IF s3.queue # <<>> THEN setTimeoutDequeue(s3, self.interval, t) ELSE s3

\* dequeue() at time t.
dequeue(s, t) ==
  LET s0 == [s EXCEPT !.timeout = NoTimer]
  IN IF tooEarly(s0, t)
     THEN setTimeoutDequeue(s0, s0.lastIntervalStart + self.interval - t, t)
     ELSE LET batch == spliced(s0)
              s1 == newInterval(s0, t)
              s2 == [s1 EXCEPT !.queue = unspliced(s0)]
              s3 == invokeAll(s2, batch, t)
          IN IF s3.queue # <<>> THEN setTimeoutDequeue(s3, self.interval, t) ELSE s3

\* ------------------------------------------------------------------ retries
\* The RetryErrors a work function may raise: with or without pauseQueue,
\* with retryAfter unset (or null), or set to one of RetryAfters.
RetryAfters == {1}
RetryErrors ==
  {[pauseQueue |-> p] : p \in BOOLEAN}
    \cup {[pauseQueue |-> p, retryAfter |-> a] : p \in BOOLEAN, a \in RetryAfters}

\* retryWait that does not look at the error: retryAfter is ignored.
retryWait_noRetryAfter(err) ==
  IF Has(self.options, "interval") THEN self.options.interval ELSE DEFAULT_WAIT

\* err.options.retryAfter ?? options.interval ?? DEFAULT_WAIT
retryWait(err) ==
  IF Has(err, "retryAfter") THEN err.retryAfter
  ELSE IF Has(self.options, "interval") THEN self.options.interval
  ELSE DEFAULT_WAIT

\* exhausted with the test off by one (< for <=): one more retry is granted.
exhausted_late(s, state, err) ==
  IF err.pauseQueue THEN s.bag[state].maxRetriesWithPauses < 0
  ELSE s.bag[state].maxRetries < 0

\* The budget test `internalState.<budget>-- <= 0` of the error's category.
exhausted(s, state, err) ==
  IF err.pauseQueue THEN s.bag[state].maxRetriesWithPauses <= 0
  ELSE s.bag[state].maxRetries <= 0

\* decrement with one budget for both categories: each RetryError is
\* charged to both.
decrement_both(s, state, err) ==
  [s EXCEPT !.bag[state].maxRetriesWithPauses = @ - 1, !.bag[state].maxRetries = @ - 1]

\* decrement that charges nothing: the budgets never run out.
decrement_never(s, state, err) == s

\* The post-decrement of the budget test, which happens whatever the outcome.
decrement(s, state, err) ==
  IF err.pauseQueue THEN [s EXCEPT !.bag[state].maxRetriesWithPauses = @ - 1]
  ELSE [s EXCEPT !.bag[state].maxRetries = @ - 1]

\* pauseAndRetry that also takes back the admitted callbacks whose work has
\* not started: they return to the head of the queue.
pauseAndRetry_requeues(s, r, err, t) ==
  LET s1 == [s EXCEPT !.numPerInterval = self.maxPerInterval,
                      !.pausedUntil = Max(@, t + retryWait(err)),
                      !.queue = s.micro \o @, !.micro = <<>>]
      s2 == IF s1.timeout # NoTimer THEN clearTimeout(s1, s1.timeout) ELSE s1
      s3 == setTimeoutDequeue(s2, retryWait(err), t)
  IN enqueue(s3, r.fn, r.state, r.owner, t)

\* The pause branch without `numPerInterval = maxPerInterval`.
pauseAndRetry_unsaturated(s, r, err, t) ==
  LET s1 == [s EXCEPT !.pausedUntil = Max(@, t + retryWait(err))]
      s2 == IF s1.timeout # NoTimer THEN clearTimeout(s1, s1.timeout) ELSE s1
      s3 == setTimeoutDequeue(s2, retryWait(err), t)
  IN enqueue(s3, r.fn, r.state, r.owner, t)

\* The pause branch: saturate the window, replace the timer, re-enqueue. The
\* end of the pause, t + wait, is recorded in the history.
pauseAndRetry(s, r, err, t) ==
  LET s1 == [s EXCEPT !.numPerInterval = self.maxPerInterval,
                      !.pausedUntil = Max(@, t + retryWait(err))]
      s2 == IF s1.timeout # NoTimer THEN clearTimeout(s1, s1.timeout) ELSE s1
      s3 == setTimeoutDequeue(s2, retryWait(err), t)
  IN enqueue(s3, r.fn, r.state, r.owner, t)

\* rethrow without the `instanceof RetryError` test: the error is charged to
\* the retry budget.
rethrow_charged(s, r) == decrement(s, r.state, [pauseQueue |-> FALSE])

\* The catch block on an error that is not a RetryError: `throw err`, which
\* touches nothing of the queue.
rethrow(s, r) == s

\* resolve / reject of a promise: a settled promise stays as it is.
settle(f, owner, outcome) ==
  IF f[owner].status = "pending" THEN [f EXCEPT ![owner] = outcome] ELSE f

\* ------------------------------------------------------------------ actions
\* The user calls enqueue(fn, state) with one of the state objects `states`.
EnqueueWith(states) ==
  /\ self.ok
  /\ calls < MaxCalls
  /\ \E state \in states :
       /\ Commit(enqueue(Q, calls + 1, state, calls + 1, now))
       /\ given' = [given EXCEPT ![calls + 1] = state]
  /\ calls' = calls + 1
  /\ future' = [future EXCEPT ![calls + 1] = Pending]
  /\ UNCHANGED <<otherQueue, options, self, now, sleeping, running, invoked,
                 retryErrors, pauseErrors>>

\* The microtask of the oldest admitted callback runs: retryableFn calls
\* fn({ intervalStart: lastIntervalStart, state }).
StartWork ==
  /\ micro # <<>>
  /\ LET cb == Head(micro)
     IN /\ invoked' = [invoked EXCEPT ![cb.fn] = @ + 1]
        /\ running' = running \cup
             {[fn |-> cb.fn, state |-> cb.state, owner |-> cb.owner, seq |-> cb.seq,
               attempt |-> invoked[cb.fn] + 1, intervalStart |-> lastIntervalStart]}
  /\ micro' = Tail(micro)
  /\ UNCHANGED <<otherQueue, options, self, now, queue, lastIntervalStart, numPerInterval,
                 timeout, timers, sleeping, bag, future, retryErrors, pauseErrors,
                 calls, given, nextSeq, admitted, windowId, pausedUntil>>

\* fn returns (or its promise resolves): .then(resolve).
WorkReturns ==
  \E r \in running :
    /\ running' = running \ {r}
    /\ future' = settle(future, r.owner,
                        [status |-> "resolved", fn |-> r.fn, attempt |-> r.attempt])
    /\ UNCHANGED <<otherQueue, options, self, now, queue, lastIntervalStart, numPerInterval,
                   timeout, timers, sleeping, micro, bag, invoked, retryErrors,
                   pauseErrors, calls, given, nextSeq, admitted, windowId,
                   pausedUntil>>

\* fn raises an error that is not a RetryError: throw err; .catch(reject).
WorkThrows ==
  \E r \in running :
    /\ running' = running \ {r}
    /\ future' = settle(future, r.owner,
                        [status |-> "rejected", error |-> "Error", fn |-> r.fn,
                         attempt |-> r.attempt])
    /\ Commit(rethrow(Q, r))
    /\ UNCHANGED <<otherQueue, options, self, now, sleeping, invoked, retryErrors,
                   pauseErrors, calls, given>>

RECURSIVE SumTo(_, _)
SumTo(f, n) == IF n = 0 THEN 0 ELSE f[n] + SumTo(f, n - 1)
\* The number of RetryErrors raised so far, by all work functions.
TotalRetryErrors == SumTo(retryErrors, MaxCalls)

\* A catch block whose plain retry closes the window as a pause does.
Raises_plainSaturates(r, err) ==
    /\ running' = running \ {r}
    /\ retryErrors' = [retryErrors EXCEPT ![r.fn] = @ + 1]
    /\ pauseErrors' = [pauseErrors EXCEPT ![r.fn] = IF err.pauseQueue THEN @ + 1 ELSE @]
    /\ LET s1 == decrement(Q, r.state, err)
       IN IF exhausted(Q, r.state, err)
          THEN /\ Commit(s1)
               /\ future' = settle(future, r.owner,
                                   [status |-> "rejected", error |-> "RetryError",
                                    fn |-> r.fn, attempt |-> r.attempt])
               /\ sleeping' = sleeping
          ELSE IF err.pauseQueue
          THEN /\ Commit(pauseAndRetry(s1, r, err, now))
               /\ UNCHANGED <<future, sleeping>>
          ELSE /\ Commit([s1 EXCEPT !.numPerInterval = self.maxPerInterval])
               /\ sleeping' = sleeping \cup
                    {[fn |-> r.fn, state |-> r.state, owner |-> r.owner,
                      seq |-> r.seq, due |-> now + retryWait(err)]}
               /\ future' = future
    /\ UNCHANGED <<otherQueue, options, self, now, invoked, calls, given>>

\* The work function of the invocation r raises the RetryError err: the
\* catch block of retryableFn.
Raises(r, err) ==
    /\ running' = running \ {r}
    /\ retryErrors' = [retryErrors EXCEPT ![r.fn] = @ + 1]
    /\ pauseErrors' = [pauseErrors EXCEPT ![r.fn] = IF err.pauseQueue THEN @ + 1 ELSE @]
    /\ LET s1 == decrement(Q, r.state, err)
       IN IF exhausted(Q, r.state, err)
          THEN /\ Commit(s1)
               /\ future' = settle(future, r.owner,
                                   [status |-> "rejected", error |-> "RetryError",
                                    fn |-> r.fn, attempt |-> r.attempt])
               /\ sleeping' = sleeping
          ELSE IF err.pauseQueue
          THEN /\ Commit(pauseAndRetry(s1, r, err, now))
               /\ UNCHANGED <<future, sleeping>>
          ELSE /\ Commit(s1)
               /\ sleeping' = sleeping \cup
                    {[fn |-> r.fn, state |-> r.state, owner |-> r.owner,
                      seq |-> r.seq, due |-> now + retryWait(err)]}
               /\ future' = future
    /\ UNCHANGED <<otherQueue, options, self, now, invoked, calls, given>>

\* fn raises a RetryError; the work functions of one run raise at most
\* `limit` RetryErrors.
RetriesUpTo(limit) ==
  \E r \in running, err \in RetryErrors :
    /\ TotalRetryErrors < limit
    /\ Raises(r, err)

\* A macrotask starts only when the microtask queue is empty.
Idle == micro = <<>>

\* The timer tm calls back: it is no longer outstanding, and dequeue runs.
Fires(tm) ==
    /\ Commit(dequeue([Q EXCEPT !.timers = @ \ {tm}], now))
    /\ UNCHANGED <<otherQueue, options, self, now, sleeping, running, future, invoked,
                   retryErrors, pauseErrors, calls, given>>

\* A setTimeout(dequeue, ..) timer fires, up to `drift` before it is due.
TimerFiresWithin(drift) ==
  \E tm \in timers :
    /\ Idle
    /\ now + drift >= tm.due
    /\ Fires(tm)

\* RetryWakesWithin without the timer: the retry is enqueued at any time
\* after the raise.
RetryWakes_atOnce(drift) ==
  \E sl \in sleeping :
    /\ Idle
    /\ sleeping' = sleeping \ {sl}
    /\ Commit(enqueue(Q, sl.fn, sl.state, sl.owner, now))
    /\ UNCHANGED <<otherQueue, options, self, now, running, future, invoked,
                   retryErrors, pauseErrors, calls, given>>

\* A retry that keeps the admission of its first attempt: the callback is
\* invoked again without the admission check.
RetryWakes_unchecked(drift) ==
  \E sl \in sleeping :
    /\ Idle
    /\ now + drift >= sl.due
    /\ sleeping' = sleeping \ {sl}
    /\ Commit(callback([Q EXCEPT !.nextSeq = @ + 1],
                       [fn |-> sl.fn, state |-> sl.state, owner |-> sl.owner,
                        seq |-> nextSeq + 1], now))
    /\ UNCHANGED <<otherQueue, options, self, now, running, future, invoked,
                   retryErrors, pauseErrors, calls, given>>

\* The setTimeout(r, ..) of a plain retry fires: return enqueue(fn, state).
RetryWakesWithin(drift) ==
  \E sl \in sleeping :
    /\ Idle
    /\ now + drift >= sl.due
    /\ sleeping' = sleeping \ {sl}
    /\ Commit(enqueue(Q, sl.fn, sl.state, sl.owner, now))
    /\ UNCHANGED <<otherQueue, options, self, now, running, future, invoked,
                   retryErrors, pauseErrors, calls, given>>

\* The due times of the outstanding timers.
Dues == {tm.due : tm \in timers} \cup {sl.due : sl \in sleeping}
NextDue == CHOOSE d \in Dues : \A e \in Dues : d <= e

\* Date.now() advances: by one millisecond, or to the next due time.
Advance ==
  /\ self.ok
  /\ \E t \in (IF now < Epoch + Horizon THEN {now + 1} ELSE {})
               \cup (IF Dues # {} /\ NextDue > now THEN {NextDue} ELSE {}) :
       now' = t
  /\ UNCHANGED <<otherQueue, options, self, queue, lastIntervalStart, numPerInterval,
                 timeout, timers, sleeping, micro, running, bag, future, invoked,
                 retryErrors, pauseErrors, calls, given, nextSeq, admitted, windowId,
                 pausedUntil>>

\* The user passes no state: enqueue creates a fresh object for the call.
UserEnqueue == EnqueueWith({calls + 1})
\* The user passes no state, or the Shared object.
UserEnqueueShared == EnqueueWith({Shared, calls + 1})
WorkRetries == RetriesUpTo(MaxRetryErrors)
WorkRetriesAgain == RetriesUpTo(MaxBudgetErrors)
TimerFires == TimerFiresWithin(MaxDrift)
RetryWakes == RetryWakesWithin(MaxDrift)
\* fn raises a RetryError, often enough in a run to overdraw both budgets of
\* a call.
WorkRetriesOften == RetriesUpTo(MaxLiveErrors)
\* The work function returns, or raises a RetryError.
WorkSettles == WorkReturns \/ WorkRetriesOften
\* Timers that honour their delay: they fire when due, or later.
TimerFiresOnTime == TimerFiresWithin(0)
RetryWakesOnTime == RetryWakesWithin(0)

Next ==
  \/ UserEnqueue
  \/ StartWork
  \/ WorkReturns
  \/ WorkThrows
  \/ WorkRetries
  \/ TimerFires
  \/ RetryWakes
  \/ Advance

\* Runs in which no work function raises a RetryError.
NextNoRetry ==
  \/ UserEnqueue
  \/ StartWork
  \/ WorkReturns
  \/ WorkThrows
  \/ TimerFires
  \/ Advance

\* Runs in which a work function may raise a RetryError again, and no work
\* function raises another error.
NextBudgets ==
  \/ UserEnqueue
  \/ StartWork
  \/ WorkReturns
  \/ WorkRetriesAgain
  \/ TimerFires
  \/ RetryWakes
  \/ Advance

\* The same on an event loop whose timers honour their delay.
NextOnTime ==
  \/ UserEnqueue
  \/ StartWork
  \/ WorkReturns
  \/ WorkRetriesAgain
  \/ TimerFiresOnTime
  \/ RetryWakesOnTime
  \/ Advance

\* The same as NextBudgets, the user passing one state object to several
\* enqueue calls.
NextShared ==
  \/ UserEnqueueShared
  \/ StartWork
  \/ WorkReturns
  \/ WorkRetriesAgain
  \/ TimerFires
  \/ RetryWakes
  \/ Advance

\* The program calls throttledQueue(o) a second time: another closure, with
\* its own queue, lastIntervalStart, numPerInterval and timeout.
BuildsAnother(optionSet) ==
  /\ otherQueue = NoQueue
  /\ \E o \in optionSet :
       otherQueue' =
         [name |-> 2, options |-> o, self |-> throttledQueue(o), queue |-> <<>>,
          lastIntervalStart |-> 0, numPerInterval |-> 0, timeout |-> NoTimer,
          timers |-> {}, sleeping |-> {}, micro |-> <<>>, running |-> {},
          nextSeq |-> 0, admitted |-> <<>>, windowId |-> 0, pausedUntil |-> 0]
  /\ UNCHANGED <<options, self, now, queue, lastIntervalStart, numPerInterval,
                 timeout, timers, sleeping, micro, running, bag, future, invoked,
                 retryErrors, pauseErrors, calls, given, nextSeq, admitted, windowId,
                 pausedUntil>>

\* The queue the variables other than otherQueue describe: 1 is the first
\* built, 2 the second.
thisQueue == IF otherQueue = NoQueue THEN 1 ELSE 3 - otherQueue.name

\* The program turns to its other queue: what follows (enqueue calls, timers,
\* work) is that queue's. The clock, the state objects, the work functions and
\* the promises are the program's, not a queue's.
TurnsToOther ==
  /\ otherQueue # NoQueue
  /\ Idle
  /\ otherQueue' =
       [name |-> thisQueue, options |-> options, self |-> self, queue |-> queue,
        lastIntervalStart |-> lastIntervalStart, numPerInterval |-> numPerInterval,
        timeout |-> timeout, timers |-> timers, sleeping |-> sleeping,
        micro |-> micro, running |-> running, nextSeq |-> nextSeq,
        admitted |-> admitted, windowId |-> windowId, pausedUntil |-> pausedUntil]
  /\ options' = otherQueue.options
  /\ self' = otherQueue.self
  /\ queue' = otherQueue.queue
  /\ lastIntervalStart' = otherQueue.lastIntervalStart
  /\ numPerInterval' = otherQueue.numPerInterval
  /\ timeout' = otherQueue.timeout
  /\ timers' = otherQueue.timers
  /\ sleeping' = otherQueue.sleeping
  /\ micro' = otherQueue.micro
  /\ running' = otherQueue.running
  /\ nextSeq' = otherQueue.nextSeq
  /\ admitted' = otherQueue.admitted
  /\ windowId' = otherQueue.windowId
  /\ pausedUntil' = otherQueue.pausedUntil
  /\ UNCHANGED <<now, bag, future, invoked, retryErrors, pauseErrors, calls, given>>

\* A second queue that allows no retries.
BuildsSecond ==
  BuildsAnother({[maxPerInterval |-> 1, interval |-> 2, maxRetries |-> 0,
                  maxRetriesWithPauses |-> 0]})

\* A program with two queues, the user passing a state object of their own
\* or none to each enqueue call.
NextTwo ==
  \/ BuildsSecond
  \/ TurnsToOther
  \/ UserEnqueueShared
  \/ StartWork
  \/ WorkReturns
  \/ WorkRetries
  \/ TimerFires
  \/ RetryWakes
  \/ Advance

\* The user makes at most MaxLiveCalls enqueue calls.
UserEnqueueFew == calls < MaxLiveCalls /\ UserEnqueue

\* Runs in which the work of one call may raise RetryErrors until both of its
\* budgets are spent.
NextLive ==
  \/ UserEnqueueFew
  \/ StartWork
  \/ WorkSettles
  \/ TimerFires
  \/ RetryWakes
  \/ Advance

\* Runs without timers and RetryErrors: the queue is built and used at once.
NextConstruct ==
  \/ UserEnqueue
  \/ StartWork
  \/ WorkReturns

\* ----------------------------------------------------------- specifications
\* The state after throttledQueue(o) for an o of `optionSet`.
InitWith(optionSet) ==
  /\ options \in optionSet
  /\ self = throttledQueue(options)
  /\ now = Epoch
  /\ queue = <<>>
  /\ lastIntervalStart = 0
  /\ numPerInterval = 0
  /\ timeout = NoTimer
  /\ timers = {}
  /\ sleeping = {}
  /\ micro = <<>>
  /\ running = {}
  /\ bag = [o \in Objects |-> NoInternal]
  /\ future = [c \in Calls |-> [status |-> "none"]]
  /\ invoked = [c \in Calls |-> 0]
  /\ retryErrors = [c \in Calls |-> 0]
  /\ pauseErrors = [c \in Calls |-> 0]
  /\ calls = 0
  /\ given = [c \in Calls |-> c]
  /\ nextSeq = 0
  /\ admitted = <<>>
  /\ windowId = 0
  /\ pausedUntil = 0
  /\ otherQueue = NoQueue

Retries == [maxRetries |-> 1, maxRetriesWithPauses |-> 1]
With(o, extra) ==
  [f \in DOMAIN o \cup DOMAIN extra |-> IF Has(extra, f) THEN extra[f] ELSE o[f]]

\* Bounded queues: a finite maxPerInterval and an interval > 0.
BoundedOptions ==
  {With(Retries, [maxPerInterval |-> k, interval |-> i]) : k \in {1, 2}, i \in {2, 3}}
\* Queues built with neither maxPerInterval nor interval.
UnboundedOptions == {Retries}
\* Queues built with a finite maxPerInterval and interval omitted or 0.
NoIntervalOptions ==
  {With(Retries, [maxPerInterval |-> 1]),
   With(Retries, [maxPerInterval |-> 2, interval |-> 0])}

Init == InitWith(BoundedOptions \cup UnboundedOptions \cup NoIntervalOptions)
Spec == Init /\ [][Next]_vars

\* Bounded queues whose work never raises a RetryError, on an event loop that
\* runs every queued microtask and every due timer, and whose clock advances.
InitBounded == InitWith(BoundedOptions)
LiveNoRetry ==
  /\ InitBounded
  /\ [][NextNoRetry]_vars
  /\ WF_vars(StartWork)
  /\ WF_vars(TimerFires)
  /\ WF_vars(Advance)

\* Bounded queues with each retry budget 0 or 1, whose work functions raise
\* enough RetryErrors to exhaust a budget.
Budgets == {[maxRetries |-> m, maxRetriesWithPauses |-> p] : m, p \in {0, 1}}
BudgetOptions == {With(b, [maxPerInterval |-> 1, interval |-> 2]) : b \in Budgets}
InitBudgets == InitWith(BudgetOptions)
BudgetSpec == InitBudgets /\ [][NextBudgets]_vars
OnTimeSpec == InitBudgets /\ [][NextOnTime]_vars
\* A queue with one retry of each category, whose work always returns or
\* raises in the end, on an event loop that runs every queued microtask and
\* every due timer, and whose clock advances.
LiveOptions == {With(Retries, [maxPerInterval |-> 1, interval |-> 2])}
InitLive == InitWith(LiveOptions)
LiveRetry ==
  /\ InitLive
  /\ [][NextLive]_vars
  /\ WF_vars(StartWork)
  /\ WF_vars(WorkSettles)
  /\ WF_vars(TimerFires)
  /\ WF_vars(RetryWakes)
  /\ WF_vars(Advance)

\* A bounded queue whose user passes one state object to several calls.
SharedOptions == {With(Retries, [maxPerInterval |-> 1, interval |-> 2])}
InitShared == InitWith(SharedOptions)
SharedSpec == InitShared /\ [][NextShared]_vars
\* Two queues of one program.
TwoSpec == InitShared /\ [][NextTwo]_vars

\* Options objects with each field omitted or set, to values on both sides
\* of what the validation accepts.
NoOptions == [f \in {} |-> 0]
Option(f, values) == {NoOptions} \cup {[g \in {f} |-> v] : v \in values}
AnyOptions ==
  {With(With(With(With(a, b), c), d), e) :
     a \in Option("maxPerInterval", {0 - 1, 0, 1, 2}),
     b \in Option("interval", {0 - 1, 0, 1}),
     c \in Option("maxRetries", {0 - 1, 0}),
     d \in Option("maxRetriesWithPauses", {0 - 1, 0}),
     e \in Option("evenlySpaced", {TRUE})}
InitAny == InitWith(AnyOptions)
ConstructSpec == InitAny /\ [][NextConstruct]_vars

\* Evenly spaced queues, with intervals that are and are not a multiple of
\* maxPerInterval.
EvenOptions ==
  {With(Retries, [maxPerInterval |-> k, interval |-> i, evenlySpaced |-> TRUE]) :
     k \in {2, 3}, i \in {3, 4}}
InitEven == InitWith(EvenOptions)
EvenSpec == InitEven /\ [][Next]_vars

\* ------------------------------------------------------------------- claims
IsBounded == self.ok /\ self.maxPerInterval # Infinity /\ self.interval > 0
\* The admissions recorded in the accounting window w.
InWindow(w) == {i \in DOMAIN admitted : admitted[i].window = w}
\* The admissions recorded at a time in [t, t + d).
InSpan(t, d) == {i \in DOMAIN admitted : admitted[i].at >= t /\ admitted[i].at < t + d}

\* C1: in a bounded queue at most maxPerInterval work items are admitted
\* between one assignment of lastIntervalStart and the next, whatever the
\* enqueue calls, timer firings (early ones included), retries and pauses.
C1_WindowQuota ==
  IsBounded => \A w \in 0..windowId : Cardinality(InWindow(w)) <= self.maxPerInterval

\* A full window of a queue with maxPerInterval = 2, after a RetryError, an
\* earlier window and with an item still pending.
C1_Witness ==
  /\ IsBounded /\ self.maxPerInterval = 2
  /\ TotalRetryErrors > 0
  /\ windowId >= 2
  /\ Cardinality(InWindow(windowId)) = 2
  /\ queue # <<>>

\* C2 (as claimed): in a bounded queue at most maxPerInterval items are
\* admitted in any time span [t, t + interval); it is enough to look at the
\* spans that start at an admission.
C2_SlidingWindow ==
  IsBounded =>
    \A i \in DOMAIN admitted :
      Cardinality(InSpan(admitted[i].at, self.interval)) <= self.maxPerInterval

\* C3: with maxPerInterval = 1 and interval I > 0, successive admissions are
\* at least I apart, so the n-th is at least (n - 1) * I after the first.
C3_Gap ==
  (IsBounded /\ self.maxPerInterval = 1) =>
    /\ \A i \in 1..(Len(admitted) - 1) :
         admitted[i + 1].at - admitted[i].at >= self.interval
    /\ \A n \in DOMAIN admitted :
         admitted[n].at >= admitted[1].at + (n - 1) * self.interval

\* Three admissions of a queue with maxPerInterval = 1, the last two exactly
\* one interval apart, after a RetryError.
C3_Witness ==
  /\ IsBounded /\ self.maxPerInterval = 1
  /\ Len(admitted) >= 3
  /\ TotalRetryErrors > 0
  /\ admitted[3].at - admitted[2].at = self.interval

\* The enqueue invocations (by their sequence numbers) in `q`, in order.
SeqsOf(q) == [i \in DOMAIN q |-> q[i].seq]
Increasing(ns) == \A i, j \in DOMAIN ns : i < j => ns[i] < ns[j]

\* C4: work is admitted, and invoked, in the order of the enqueue calls (a
\* retry's re-enqueue being a new call): the invocations started, then the
\* admitted callbacks waiting to start, then the pending callbacks are in the
\* order of their enqueue calls, and no admission overtakes a pending item.
C4_Fifo ==
  /\ Increasing(SeqsOf(admitted))
  /\ Increasing(SeqsOf(admitted \o queue))
  /\ Increasing(SeqsOf(micro \o queue))
  /\ \A r \in running : \A i \in DOMAIN micro : r.seq < micro[i].seq

\* An item was admitted by a timer while a later one still waits, after one
\* was admitted directly and one re-enqueued by a retry.
C4_Witness ==
  /\ Len(admitted) >= 3
  /\ queue # <<>>
  /\ TotalRetryErrors > 0
  /\ \E i \in DOMAIN admitted : admitted[i].at > admitted[1].at

\* C5: in a bounded queue without retries or pauses, whose timers eventually
\* fire, the work of every enqueue call made is eventually invoked.
C5_EventuallyInvoked == \A c \in Calls : (calls >= c) ~> (invoked[c] >= 1)

\* The third item of a queue with maxPerInterval = 1 was invoked after two
\* timer firings, each exactly one interval after the admission before.
C5_Witness ==
  /\ IsBounded /\ self.maxPerInterval = 1
  /\ Len(admitted) >= 3
  /\ admitted[3].at = admitted[1].at + 2 * self.interval
  /\ invoked[admitted[3].fn] = 1

\* How often the enqueue invocation n was admitted, and how often it is pending.
Admissions(n) == Cardinality({i \in DOMAIN admitted : admitted[i].seq = n})
Pendings(n) == Cardinality({i \in DOMAIN queue : queue[i].seq = n})

\* C6: a work function that raised no RetryError was invoked at most once: no
\* callback is admitted twice, nor admitted and still pending.
C6_AtMostOnce ==
  /\ \A c \in Calls : retryErrors[c] = 0 => invoked[c] <= 1
  /\ \A n \in 1..nextSeq : Admissions(n) + Pendings(n) <= 1

\* Every work function ran once with no RetryError raised, the last one taken
\* from pending by the second timer firing.
C6_Witness ==
  /\ TotalRetryErrors = 0
  /\ \A c \in Calls : invoked[c] = 1
  /\ queue = <<>>
  /\ IsBounded /\ windowId >= 3

IsUnbounded == self.ok /\ ~Has(options, "maxPerInterval") /\ ~Has(options, "interval")

\* C7: in a queue built with neither maxPerInterval nor interval, an enqueue
\* call made while no pause is in effect (no wake-up timer is outstanding and
\* the call is not the re-enqueue of a pause) admits its item at once: the
\* item is not appended to pending and no timer is scheduled.
C7_UnboundedAdmits ==
  [][(/\ IsUnbounded
      /\ timers = {}
      /\ retryErrors' = retryErrors
      /\ nextSeq' = nextSeq + 1)
     => (/\ queue' = queue
         /\ timers' = {}
         /\ timeout' = NoTimer
         /\ Len(admitted') = Len(admitted) + 1
         /\ admitted'[Len(admitted')].seq = nextSeq')]_vars

\* In an unbounded queue a pause was raised and has ended, and the fourth
\* enqueue invocation was admitted after the wake-up that ended it.
C7_Witness ==
  /\ IsUnbounded
  /\ TotalRetryErrors = 1
  /\ windowId = 1
  /\ timers = {}
  /\ Len(admitted) >= 4
  /\ admitted[4].seq = 4
  /\ admitted[4].at > lastIntervalStart

IsNoInterval == self.ok /\ Has(options, "maxPerInterval") /\ self.interval = 0

\* C8 (as claimed): in a queue built with a finite maxPerInterval and no
\* interval (or 0), with no pause raised, no item is ever appended to pending
\* and no timer is scheduled.
C8_NoIntervalAdmitsAll ==
  (IsNoInterval /\ TotalRetryErrors = 0) => (queue = <<>> /\ timers = {})

\* C9: a resolved future holds the value returned by the work function of its
\* own enqueue call, on that function's last attempt.
C9_OwnResult ==
  \A c \in Calls :
    future[c].status = "resolved" =>
      (future[c].fn = c /\ future[c].attempt = invoked[c])

\* Two futures are resolved, one of them on the second attempt of its work.
C9_Witness ==
  \E c, d \in Calls :
    /\ c # d
    /\ future[c].status = "resolved" /\ future[c].attempt = 2
    /\ future[d].status = "resolved" /\ future[d].attempt = 1

\* The callbacks and sleeping retries of the work function c.
Alive(c) ==
  {i \in DOMAIN queue : queue[i].fn = c} \cup {i \in DOMAIN micro : micro[i].fn = c}
    \cup {r.seq : r \in {x \in running : x.fn = c}}
    \cup {r.seq : r \in {x \in sleeping : x.fn = c}}

\* A step in which a future fails with an error that is not a RetryError.
FailsWithError ==
  \E c \in Calls :
    /\ future[c].status = "pending"
    /\ future'[c].status = "rejected"
    /\ future'[c].error = "Error"

\* C10: a future that failed with an error that is not a RetryError holds the
\* error raised by the last attempt of its own work, whose function is not
\* queued, running or waiting again; and the failing step changes neither the
\* retry budgets nor the window, its counter, pending or the timer.
C10_ErrorIsTerminal ==
  /\ [](\A c \in Calls :
          (future[c].status = "rejected" /\ future[c].error = "Error") =>
            (future[c].fn = c /\ future[c].attempt = invoked[c] /\ Alive(c) = {}))
  /\ [][FailsWithError =>
          UNCHANGED <<bag, lastIntervalStart, numPerInterval, queue, timeout, timers,
                      sleeping>>]_vars

\* A future failed with the error of its work's second attempt while another
\* item was pending under a timer.
C10_Witness ==
  \E c \in Calls :
    /\ future[c].status = "rejected" /\ future[c].error = "Error"
    /\ future[c].attempt = 2
    /\ queue # <<>> /\ timers # {}

\* What is left of the budget of err's category in the state object `state`.
Budget(state, err) ==
  IF err.pauseQueue THEN bag[state].maxRetriesWithPauses ELSE bag[state].maxRetries

\* C11: when work raises a RetryError, the caller's future fails with it if
\* the budget of the error's category is exhausted (nothing is left of it) at
\* that moment, and otherwise stays pending while the execution is re-enqueued
\* (queued again, or waiting to be); so a future that failed with a RetryError
\* belongs to a call that has overdrawn one of its budgets.
C11_SurfacesWhenExhausted ==
  /\ [][\A r \in running, err \in RetryErrors :
          Raises(r, err) =>
            IF Budget(r.state, err) <= 0
            THEN /\ future'[r.owner].status = "rejected"
                 /\ future'[r.owner].error = "RetryError"
                 /\ Alive(r.fn)' = {}
            ELSE /\ future'[r.owner] = Pending
                 /\ Alive(r.fn)' # {}]_vars
  /\ [](\A c \in Calls :
          (future[c].status = "rejected" /\ future[c].error = "RetryError") =>
            (bag[c].maxRetries < 0 \/ bag[c].maxRetriesWithPauses < 0))

\* With a budget of one retry, a future failed with the RetryError of its
\* work's second attempt, the first one having been retried.
C11_Witness ==
  \E c \in Calls :
    /\ future[c].status = "rejected" /\ future[c].error = "RetryError"
    /\ future[c].attempt = 2
    /\ retryErrors[c] = 2

FailedWithRetryError(c) == future[c].status = "rejected" /\ future[c].error = "RetryError"
\* Every attempt of the work of call c raised a RetryError: a plain one, or
\* one with pauseQueue.
OnlyPlain(c) == invoked[c] >= 1 /\ retryErrors[c] = invoked[c] /\ pauseErrors[c] = 0
OnlyPauses(c) ==
  invoked[c] >= 1 /\ retryErrors[c] = invoked[c] /\ pauseErrors[c] = invoked[c]
\* After limit + 1 failed attempts the future has failed with the RetryError
\* of the last one and no attempt is left to come; before, it is pending.
FailsAfter(c, limit) ==
  IF invoked[c] = limit + 1
  THEN FailedWithRetryError(c) /\ future[c].attempt = limit + 1 /\ Alive(c) = {}
  ELSE invoked[c] <= limit /\ future[c] = Pending

\* C12: work that raises a plain RetryError on every attempt is invoked
\* maxRetries + 1 times, and the future then fails with the RetryError; the
\* same for RetryErrors with pauseQueue and maxRetriesWithPauses. No work
\* whose RetryErrors are all of one category is invoked more often than that.
C12_LimitPlusOneAttempts ==
  \A c \in Calls :
    /\ OnlyPlain(c) => FailsAfter(c, self.maxRetries)
    /\ OnlyPauses(c) => FailsAfter(c, self.maxRetriesWithPauses)
    /\ pauseErrors[c] = 0 => invoked[c] <= self.maxRetries + 1
    /\ pauseErrors[c] = retryErrors[c] => invoked[c] <= self.maxRetriesWithPauses + 1

\* With maxRetries = 1, a future failed after two attempts that each raised
\* a plain RetryError, while another call's item waits in pending.
C12_Witness ==
  \E c \in Calls :
    /\ self.maxRetries = 1
    /\ OnlyPlain(c) /\ invoked[c] = 2
    /\ FailedWithRetryError(c)
    /\ queue # <<>>

\* The state objects of the callbacks the enqueue invocation n created.
StatesOfSeq(q, n) == {q[i].state : i \in {j \in DOMAIN q : q[j].seq = n}}

\* C13 (as claimed): each enqueue call made by the user starts with the full
\* budgets in the state object it runs with, whatever state it was passed;
\* and a future fails with a RetryError only after the work of its own call
\* raised more RetryErrors of one category than the limit of that category.
C13_OwnFullBudget ==
  /\ [][calls' = calls + 1 =>
          \A o \in StatesOfSeq(queue', nextSeq') \cup StatesOfSeq(micro', nextSeq') :
            /\ bag'[o].maxRetries = self.maxRetries
            /\ bag'[o].maxRetriesWithPauses = self.maxRetriesWithPauses]_vars
  /\ [](\A c \in Calls :
          FailedWithRetryError(c) =>
            \/ retryErrors[c] - pauseErrors[c] > self.maxRetries
            \/ pauseErrors[c] > self.maxRetriesWithPauses)

\* C14: a plain RetryError takes one from the maxRetries budget of its
\* execution and a RetryError with pauseQueue one from its
\* maxRetriesWithPauses budget, and nothing else of any budget changes; so
\* what is left of each budget of a call is its limit less the RetryErrors of
\* that category its work raised.
C14_OwnCategoryOnly ==
  /\ [][\A r \in running, err \in RetryErrors :
          Raises(r, err) =>
            /\ \A o \in Objects \ {r.state} : bag'[o] = bag[o]
            /\ bag'[r.state].maxRetries =
                 bag[r.state].maxRetries - (IF err.pauseQueue THEN 0 ELSE 1)
            /\ bag'[r.state].maxRetriesWithPauses =
                 bag[r.state].maxRetriesWithPauses - (IF err.pauseQueue THEN 1 ELSE 0)]_vars
  /\ [](\A c \in Calls :
          bag[c].set =>
            /\ bag[c].maxRetries = self.maxRetries - (retryErrors[c] - pauseErrors[c])
            /\ bag[c].maxRetriesWithPauses = self.maxRetriesWithPauses - pauseErrors[c])

\* The work of one call raised a plain RetryError and one with pauseQueue,
\* and was retried both times, each budget being 1.
C14_Witness ==
  \E c \in Calls :
    /\ retryErrors[c] = 2 /\ pauseErrors[c] = 1
    /\ invoked[c] = 3
    /\ future[c] = Pending

\* The invocation r raised err with budget left, and the wait w was applied:
\* the timer of the pause, or of the retry, is due w after the raise.
WaitApplied(r, err, w) ==
  IF err.pauseQueue
  THEN [id |-> timeout', due |-> now + w] \in timers'
  ELSE \E sl \in sleeping' \ sleeping : sl.seq = r.seq /\ sl.due = now + w

Queued(c) ==
  {i \in DOMAIN queue : queue[i].fn = c} \cup {i \in DOMAIN micro : micro[i].fn = c}
    \cup {r.seq : r \in {x \in running : x.fn = c}}
\* The shortest wait a RetryError of this queue resolves to.
MinWait ==
  LET waits == {retryWait(err) : err \in RetryErrors}
  IN CHOOSE w \in waits : \A v \in waits : w <= v
\* The times at which the work function c was admitted, and the first one.
AdmittedAt(c) == {admitted[i].at : i \in {j \in DOMAIN admitted : admitted[j].fn = c}}
FirstAdmittedAt(c) == CHOOSE t \in AdmittedAt(c) : \A u \in AdmittedAt(c) : t <= u

C17_NoAdmissionInPause ==
  [][Len(admitted') > Len(admitted) => now >= pausedUntil']_vars

\* The work functions admitted and not settled, the one of r apart.
InFlightBut(r) == {micro[i].fn : i \in DOMAIN micro} \cup {x.fn : x \in running \ {r}}

\* C18: a pause changes nothing for the items admitted before it: the step
\* that raises it leaves the admitted callbacks, the other running work, the
\* admissions and all futures as they are, and appends to pending nothing but
\* the pausing execution; and, pause or not, an admitted callback can start
\* and running work can finish.
C18_PauseSparesAdmitted ==
  /\ [][\A r \in running, err \in RetryErrors :
          (Raises(r, err) /\ err.pauseQueue /\ Budget(r.state, err) > 0) =>
            /\ micro' = micro
            /\ running' = running \ {r}
            /\ admitted' = admitted
            /\ future' = future
            /\ queue' = Append(queue, queue'[Len(queue')])
            /\ queue'[Len(queue')].fn = r.fn
            /\ \A i \in DOMAIN queue' : queue'[i].fn \notin InFlightBut(r)]_vars
  /\ [](micro # <<>> => ENABLED StartWork)
  /\ [](running # {} => ENABLED WorkReturns)

\* A pause is in effect, raised while one admitted callback had not started
\* and other work was running: both are as they were, and the pausing
\* execution is the only pending item.
C18_Witness ==
  /\ pausedUntil > now + MaxDrift
  /\ micro # <<>> /\ running # {}
  /\ Len(queue) = 1
  /\ pauseErrors[queue[1].fn] = 1

\* The state objects held for the work function c: by its callback (pending,
\* admitted or running, where it is the `state` the work receives) or by its
\* waiting retry.
StatesOf(c) ==
  {queue[i].state : i \in {j \in DOMAIN queue : queue[j].fn = c}}
    \cup {micro[i].state : i \in {j \in DOMAIN micro : micro[j].fn = c}}
    \cup {x.state : x \in {y \in running : y.fn = c}}
    \cup {x.state : x \in {y \in sleeping : y.fn = c}}

\* C19: every attempt of one enqueue call receives the same state object,
\* the one the call was given or the one created for it, which is held for
\* the work as long as the future is pending; two calls that were given no
\* state hold different objects.
C19_SameStateObject ==
  /\ \A c \in Calls :
       /\ StatesOf(c) \subseteq {given[c]}
       /\ future[c] = Pending => StatesOf(c) = {given[c]}
  /\ \A c, d \in Calls :
       (c # d /\ given[c] # Shared /\ given[d] # Shared) =>
         StatesOf(c) \cap StatesOf(d) = {}

\* The second attempts of two calls are running, one with the state object
\* its call was passed, the other with the object created for its call.
C19_Witness ==
  \E x, y \in running :
    /\ x.attempt = 2 /\ given[x.fn] = Shared /\ x.state = Shared
    /\ y.attempt = 2 /\ given[y.fn] # Shared /\ y.state = y.fn

\* C20 (as claimed): the queue's bookkeeping never writes a state object: no
\* object passed to enqueue, or created by it, gains the INTERNAL_STATE key
\* or holds a retry budget.
C20_StateObjectUntouched == \A o \in Objects : bag[o] = NoInternal

\* C21: at most one wake-up timer is outstanding, and it is the one whose
\* handle `timeout` holds; when `timeout` is undefined none is outstanding.
C21_OneTimer ==
  /\ Cardinality(timers) <= 1
  /\ timeout = NoTimer <=> timers = {}
  /\ \A tm \in timers : tm.id = timeout

\* The one timer outstanding is the timer of a pause, which was raised while
\* an item was pending under a timer that the pause cancelled.
C21_Witness ==
  /\ Cardinality(timers) = 1
  /\ \A tm \in timers : tm.due = pausedUntil /\ tm.due > lastIntervalStart + self.interval
  /\ Len(queue) >= 2
  /\ pauseErrors[queue[Len(queue)].fn] = 1
  /\ IsBounded

\* The options the claim has refused.
Refused(o) ==
  \/ Has(o, "maxPerInterval") /\ o.maxPerInterval < 1
  \/ Has(o, "interval") /\ o.interval < 0
  \/ Has(o, "maxRetries") /\ o.maxRetries < 0
  \/ Has(o, "maxRetriesWithPauses") /\ o.maxRetriesWithPauses < 0

\* C22: throttledQueue(options) throws, and returns no queue (nothing can be
\* enqueued), exactly when maxPerInterval < 1, interval < 0, maxRetries < 0
\* or maxRetriesWithPauses < 0.
C22_RefusedExactly ==
  /\ self.ok <=> ~Refused(options)
  /\ ~self.ok => (Has(self, "error") /\ calls = 0 /\ nextSeq = 0)

\* The queue built with maxPerInterval = 1, interval = 0 and both retry
\* limits 0 took every call, and a future of it resolved.
C22_Witness ==
  /\ Has(options, "maxPerInterval") /\ options.maxPerInterval = 1
  /\ Has(options, "interval") /\ options.interval = 0
  /\ Has(options, "maxRetries") /\ options.maxRetries = 0
  /\ Has(options, "maxRetriesWithPauses") /\ options.maxRetriesWithPauses = 0
  /\ calls = MaxCalls
  /\ \E c \in Calls : future[c].status = "resolved"

IsEven == self.ok /\ optEvenlySpaced(options)
\* A step that is an enqueue call made by the user.
UserCalls == calls' = calls + 1
\* The item of the enqueue call of this step is admitted in the step.
AdmittedAtOnce ==
  /\ Len(admitted') = Len(admitted) + 1
  /\ admitted'[Len(admitted')].seq = nextSeq'
  /\ queue' = queue

\* C23 (as claimed): a queue built with evenlySpaced, maxPerInterval = k and
\* interval = I behaves like the queue with maxPerInterval = 1 and interval
\* = I / k, which admits at once the item of an enqueue call made with no
\* timer pending more than I / k after the start of the window.
C23_LikeQuotient ==
  [][(/\ IsEven
      /\ UserCalls
      /\ timeout = NoTimer
      /\ options.maxPerInterval * (now - lastIntervalStart) > options.interval)
     => AdmittedAtOnce]_vars

\* The options of the queue without evenlySpaced that an evenly spaced queue
\* built with o is the same as.
Unspaced(o) ==
  With(o, [maxPerInterval |-> 1,
           interval |-> Ceil(o.interval, o.maxPerInterval),
           evenlySpaced |-> FALSE])

\* C23 (amended): a queue built with evenlySpaced, maxPerInterval = k and
\* interval = I is the queue built with maxPerInterval = 1 and interval =
\* ceil(I / k): throttledQueue returns the same closure for both, and the
\* item of an enqueue call made with no timer pending more than ceil(I / k)
\* after the start of the window is admitted at once.
C23_LikeCeiling ==
  /\ [](IsEven =>
          /\ self = throttledQueue(Unspaced(options))
          /\ self.maxPerInterval = 1
          /\ self.interval * options.maxPerInterval >= options.interval
          /\ (self.interval - 1) * options.maxPerInterval < options.interval)
  /\ [][(/\ IsEven
          /\ UserCalls
          /\ timeout = NoTimer
          /\ now - lastIntervalStart > Ceil(options.interval, options.maxPerInterval))
         => AdmittedAtOnce]_vars

\* In the queue built with evenlySpaced, maxPerInterval = 2 and interval = 3
\* the second item was admitted 2 ms after the first and the third, enqueued
\* more than 2 ms after the second, at once.
C23_Witness ==
  /\ IsEven /\ options.maxPerInterval = 2 /\ options.interval = 3
  /\ Len(admitted) = 3
  /\ admitted[2].at = admitted[1].at + 2
  /\ admitted[3].at > admitted[2].at + 2
  /\ queue = <<>> /\ timers = {}
  /\ TotalRetryErrors = 0

\* C24: in a queue built with evenlySpaced, maxPerInterval = k and interval
\* = I, at most k items are admitted in any time span [t, t + I); it is
\* enough to look at the spans that start at an admission.
C24_EvenQuota ==
  IsEven =>
    \A i \in DOMAIN admitted :
      Cardinality(InSpan(admitted[i].at, options.interval)) <= options.maxPerInterval

\* With k = 2 and I = 3, which is not a multiple of k, two items were
\* admitted within 3 ms and a third one after them.
C24_Witness ==
  /\ IsEven /\ options.maxPerInterval = 2 /\ options.interval = 3
  /\ Len(admitted) = 3
  /\ Cardinality(InSpan(admitted[1].at, 3)) = 2
  /\ Cardinality(InSpan(admitted[2].at, 3)) = 2

\* C25 (as claimed): in a queue built with evenlySpaced, a RetryError whose
\* retryAfter is not set, plain or with pauseQueue, waits the interval given
\* in the options of throttledQueue.
C25_EvenWaitsGivenInterval ==
  [][\A r \in running, err \in RetryErrors :
       (IsEven /\ Raises(r, err) /\ Budget(r.state, err) > 0
          /\ ~Has(err, "retryAfter")) =>
         WaitApplied(r, err, options.interval)]_vars

\* The latest admission of the execution numbered seq.
LastAdmission(seq) ==
  LET of == {i \in DOMAIN admitted : admitted[i].seq = seq}
  IN  admitted[CHOOSE i \in of : \A j \in of : j <= i]

\* C26 (as claimed): the intervalStart passed to a work invocation is the
\* value lastIntervalStart had when that invocation was admitted, whatever
\* happened to lastIntervalStart between the admission and the start of fn.
C26_StartOfAdmission ==
  \A r \in running :
    r.intervalStart = LastAdmission(r.seq).start

\* The state objects held by the executions of a queue: pending, admitted,
\* running or waiting to retry.
HeldBy(q, m, r, sl) ==
  {q[i].state : i \in DOMAIN q} \cup {m[i].state : i \in DOMAIN m}
    \cup {x.state : x \in r} \cup {x.state : x \in sl}
\* The step is an operation on the queue in hand while another queue exists.
OnThisQueue ==
  /\ otherQueue # NoQueue
  /\ otherQueue' # NoQueue
  /\ otherQueue'.name = otherQueue.name

\* C27 (as claimed): two queues built by separate throttledQueue calls share
\* no state. An operation on one queue leaves queue, lastIntervalStart,
\* numPerInterval and the timer of the other as they were, and leaves the
\* retry budgets of the executions of the other as they were; the budgets a
\* queue applies to its executions are within its own maxRetries and
\* maxRetriesWithPauses.
C27_QueuesShareNothing ==
  /\ [](\A st \in HeldBy(queue, micro, running, sleeping) :
          /\ bag[st].maxRetries <= self.maxRetries
          /\ bag[st].maxRetriesWithPauses <= self.maxRetriesWithPauses)
  /\ [][OnThisQueue =>
          /\ otherQueue' = otherQueue
          /\ \A st \in HeldBy(otherQueue.queue, otherQueue.micro,
                               otherQueue.running, otherQueue.sleeping) :
               bag'[st] = bag[st]]_vars

\* C28: when the timer fires at now < lastIntervalStart + interval, dequeue
\* admits nothing, leaves queue, lastIntervalStart and numPerInterval as they
\* were, and sets exactly one timer, with delay lastIntervalStart + interval -
\* now.
C28_TooEarlyReschedules ==
  [][\A tm \in timers :
       (Idle /\ Fires(tm) /\ now < lastIntervalStart + self.interval) =>
         /\ admitted' = admitted
         /\ micro' = micro
         /\ queue' = queue
         /\ lastIntervalStart' = lastIntervalStart
         /\ numPerInterval' = numPerInterval
         /\ timeout' # NoTimer
         /\ timers' = {[id |-> timeout',
                        due |-> now + (lastIntervalStart + self.interval - now)]}]_vars

\* A pause with retryAfter shorter than the rest of the window has ended, its
\* timer has fired before the end of the window and the paused item, alone in
\* the queue, is still pending: the only timer is due at the end of the window.
C28_Witness ==
  /\ IsBounded
  /\ Len(queue) = 1
  /\ pauseErrors[queue[1].fn] = 1
  /\ pausedUntil < lastIntervalStart + self.interval
  /\ now >= pausedUntil
  /\ timers = {[id |-> timeout, due |-> lastIntervalStart + self.interval]}

\* C29: when the timer fires at now >= lastIntervalStart + interval, dequeue
\* sets lastIntervalStart to now, removes min(maxPerInterval, Len(queue))
\* callbacks from the front of queue and invokes them in that order, leaves
\* numPerInterval equal to their number, and sets the next timer, interval ms
\* out, if and only if queue is still non-empty (otherwise no timer remains).
C29_DueAdmitsBatch ==
  [][\A tm \in timers :
       (Idle /\ Fires(tm) /\ now >= lastIntervalStart + self.interval) =>
         LET n == Min(self.maxPerInterval, Len(queue))
         IN /\ lastIntervalStart' = now
            /\ queue' = SubSeq(queue, n + 1, Len(queue))
            /\ micro' = SubSeq(queue, 1, n)
            /\ Len(admitted') = Len(admitted) + n
            /\ \A i \in 1..n :
                 /\ admitted'[Len(admitted) + i].seq = queue[i].seq
                 /\ admitted'[Len(admitted) + i].at = now
            /\ numPerInterval' = n
            /\ IF queue' # <<>>
               THEN /\ timeout' # NoTimer
                    /\ timers' = {[id |-> timeout', due |-> now + self.interval]}
               ELSE /\ timeout' = NoTimer
                    /\ timers' = {}]_vars

\* Of two pending items of a queue with maxPerInterval = 1 the timer, firing
\* when due, has admitted the first and left the second with a new timer.
C29_Witness ==
  /\ IsBounded
  /\ self.maxPerInterval = 1
  /\ TotalRetryErrors = 0
  /\ Len(admitted) = 2
  /\ admitted[2].at = admitted[1].at + self.interval
  /\ lastIntervalStart = now
  /\ admitted[2].at = now
  /\ numPerInterval = 1
  /\ Len(micro) = 1
  /\ micro[1].seq = admitted[2].seq
  /\ Len(queue) = 1
  /\ timers = {[id |-> timeout, due |-> now + self.interval]}

\* An enqueue call of this step: the user's, a plain retry's or a pause's.
EnqueueCalled == nextSeq' = nextSeq + 1
\* The step is the catch block of a RetryError with pauseQueue.
Pauses == pauseErrors' # pauseErrors

\* C30: an enqueue call on a bounded queue with no timer pending and more
\* than interval elapsed since lastIntervalStart resets the window
\* (lastIntervalStart = now, the counter restarts) and admits the item at
\* once, whether or not the previous window was filled; an enqueue call made
\* while a timer is pending leaves the window as it is.
C30_IdleQueueRollsOver ==
  [][/\ (IsBounded /\ EnqueueCalled /\ ~Pauses /\ timeout = NoTimer
           /\ now - lastIntervalStart > self.interval) =>
          /\ lastIntervalStart' = now
          /\ windowId' = windowId + 1
          /\ numPerInterval' = 1
          /\ AdmittedAtOnce
          /\ admitted'[Len(admitted')].at = now
          /\ timers' = timers
     /\ (IsBounded /\ EnqueueCalled /\ (timeout # NoTimer \/ Pauses)) =>
          /\ lastIntervalStart' = lastIntervalStart
          /\ windowId' = windowId
          /\ ~Pauses => numPerInterval' = Inc(numPerInterval)]_vars

\* A queue with maxPerInterval = 1 has admitted one item, filling the window,
\* and more than interval later a second, in a window that starts with it; no
\* timer is left.
C30_Witness ==
  /\ IsBounded
  /\ self.maxPerInterval = 1
  /\ TotalRetryErrors = 0
  /\ calls = 2
  /\ Len(admitted) = 2
  /\ admitted[2].at > admitted[1].at + self.interval
  /\ admitted[2].window = admitted[1].window + 1
  /\ admitted[2].start = now
  /\ lastIntervalStart = now
  /\ numPerInterval = 1
  /\ queue = <<>>
  /\ timers = {}

\* The rollover test of an enqueue call made now would pass.
RollsOver ==
  timeout = NoTimer /\ self.interval # 0 /\ now - lastIntervalStart > self.interval
\* An enqueue call made now finds the window full.
WindowFull == ~RollsOver /\ numPerInterval >= self.maxPerInterval

\* C31: an enqueue call (the user's or a plain retry's) that finds the window
\* full appends its item to the tail of queue and admits nothing; with no
\* timer pending it sets one due at lastIntervalStart + interval (delay
\* lastIntervalStart + interval - now, a negative delay being 0), and with a
\* timer pending it leaves that timer as it is.
C31_FullWindowQueues ==
  [][(self.ok /\ EnqueueCalled /\ ~Pauses /\ WindowFull) =>
       /\ Len(queue') = Len(queue) + 1
       /\ SubSeq(queue', 1, Len(queue)) = queue
       /\ queue'[Len(queue')].seq = nextSeq'
       /\ admitted' = admitted
       /\ micro' = micro
       /\ lastIntervalStart' = lastIntervalStart
       /\ IF timeout = NoTimer
          THEN /\ timeout' # NoTimer
               /\ timers' =
                    {[id |-> timeout',
                      due |-> now + Max(lastIntervalStart + self.interval - now, 0)]}
          ELSE /\ timeout' = timeout
               /\ timers' = timers]_vars

\* Two enqueue calls have found the window of a bounded queue full, the
\* second with the timer of the first pending: both items are pending in the
\* order of the calls and the one timer is due at the end of the window.
C31_Witness ==
  /\ IsBounded
  /\ TotalRetryErrors = 0
  /\ calls = self.maxPerInterval + 2
  /\ Len(admitted) = self.maxPerInterval
  /\ Len(queue) = 2
  /\ queue[1].seq < queue[2].seq
  /\ now > lastIntervalStart
  /\ now < lastIntervalStart + self.interval
  /\ timers = {[id |-> timeout, due |-> lastIntervalStart + self.interval]}

\* The enqueue call of this step appends its item to queue.
Appends == Len(queue') = Len(queue) + 1

\* C32 (as claimed): in a bounded queue numPerInterval is at most
\* maxPerInterval in every state: it is incremented only when an item is
\* admitted, and an enqueue call that appends its item to queue leaves it
\* unchanged.
C32_CounterWithinQuota ==
  /\ [](IsBounded => numPerInterval <= self.maxPerInterval)
  /\ [][(IsBounded /\ EnqueueCalled /\ ~Pauses /\ Appends) =>
          numPerInterval' = numPerInterval]_vars

\* C32 (amended): in a bounded queue every enqueue call of the user or of a
\* plain retry increments numPerInterval, after the rollover if there is one,
\* whether its item is admitted or appended to queue; the item is admitted
\* exactly when the counter was below maxPerInterval. The counter may so
\* exceed maxPerInterval, and the admissions of the current window number at
\* most the smaller of the two.
C32_CounterCountsCalls ==
  /\ [](IsBounded =>
          Cardinality(InWindow(windowId)) <= Min(numPerInterval, self.maxPerInterval))
  /\ [][(IsBounded /\ EnqueueCalled /\ ~Pauses) =>
          /\ numPerInterval' = (IF RollsOver THEN 0 ELSE numPerInterval) + 1
          /\ Appends <=> WindowFull
          /\ ~Appends <=> AdmittedAtOnce]_vars

\* Two enqueue calls have found the one slot of the window taken: both items
\* are pending and the counter, 3, exceeds maxPerInterval.
C32_Witness ==
  /\ IsBounded
  /\ self.maxPerInterval = 1
  /\ TotalRetryErrors = 0
  /\ calls = 3
  /\ Cardinality(InWindow(windowId)) = 1
  /\ Len(queue) = 2
  /\ numPerInterval = 3

\* C33: the catch block of a RetryError with pauseQueue, budget remaining,
\* sets numPerInterval to maxPerInterval, cancels the pending timer if there
\* is one, sets exactly one timer, due after the wait of the error, and calls
\* enqueue in the same step: the window being full, the pausing execution is
\* appended to the tail of queue, behind every item pending, and the call has
\* incremented the counter to maxPerInterval + 1.
C33_PauseSaturatesAndRequeues ==
  [][\A r \in running, err \in RetryErrors :
       (Raises(r, err) /\ err.pauseQueue /\ Budget(r.state, err) > 0) =>
         /\ numPerInterval' = Inc(self.maxPerInterval)
         /\ timeout' # NoTimer
         /\ timers' = {[id |-> timeout', due |-> now + retryWait(err)]}
         /\ sleeping' = sleeping
         /\ lastIntervalStart' = lastIntervalStart
         /\ admitted' = admitted
         /\ queue' = Append(queue, [fn |-> r.fn, state |-> r.state,
                                    owner |-> r.owner, seq |-> nextSeq + 1])]_vars

\* An execution of a bounded queue has just raised a pause shorter than the
\* rest of the window while an item was pending with its timer: the pausing
\* execution is behind that item, the counter is maxPerInterval + 1 and the
\* one timer is the pause's.
C33_Witness ==
  /\ IsBounded
  /\ Len(queue) = 2
  /\ pauseErrors[queue[1].fn] = 0
  /\ pauseErrors[queue[2].fn] = 1
  /\ numPerInterval = self.maxPerInterval + 1
  /\ pausedUntil < lastIntervalStart + self.interval
  /\ now < pausedUntil
  /\ timers = {[id |-> timeout, due |-> pausedUntil]}

\* The enqueue call of this step, made for the work function fn, goes through
\* the admission check: it takes a slot of the window, rolled over first if
\* the queue was idle, and its item is admitted in that window if the window
\* was not full, appended to the tail of queue with a new number otherwise.
Checked(fn) ==
  /\ numPerInterval' = Inc(IF RollsOver THEN 0 ELSE numPerInterval)
  /\ windowId' = IF RollsOver THEN windowId + 1 ELSE windowId
  /\ IF WindowFull
     THEN /\ admitted' = admitted
          /\ Len(queue') = Len(queue) + 1
          /\ SubSeq(queue', 1, Len(queue)) = queue
          /\ queue'[Len(queue')].fn = fn
          /\ queue'[Len(queue')].seq = nextSeq'
     ELSE /\ AdmittedAtOnce
          /\ admitted'[Len(admitted')].fn = fn
          /\ admitted'[Len(admitted')].window = windowId'

\* C34: the re-enqueue of a plain retry goes through the same admission
\* check as an enqueue call of the user: it takes a slot of the window in
\* which it is admitted, and when the window is full it is appended to the
\* tail of queue, behind every item pending then, whatever the position of
\* its first attempt.
C34_RetryIsFreshAdmission ==
  [][/\ \A sl \in sleeping :
          (self.ok /\ sleeping' = sleeping \ {sl} /\ EnqueueCalled) => Checked(sl.fn)
     /\ (self.ok /\ UserCalls) => Checked(calls')]_vars

\* The first call's work was retried and its re-enqueue found the window
\* full: it is pending behind the item of a call made after its first attempt.
C34_Witness ==
  /\ IsBounded
  /\ sleeping = {}
  /\ Len(queue) = 2
  /\ queue[2].fn = 1
  /\ queue[1].fn > 1
  /\ retryErrors[1] = 1
  /\ pauseErrors[1] = 0
  /\ queue[2].seq > queue[1].seq

\* C35: a plain retry leaves the queue alone while it waits. The step that
\* raises it changes none of queue, lastIntervalStart, numPerInterval and the
\* timer, and admits nothing; while it waits an enqueue call of the user goes
\* through the admission check as ever and a timer that is due can fire.
C35_PlainRetrySparesQueue ==
  /\ [][\A r \in running, err \in RetryErrors :
          (Raises(r, err) /\ ~err.pauseQueue) =>
            /\ queue' = queue
            /\ lastIntervalStart' = lastIntervalStart
            /\ numPerInterval' = numPerInterval
            /\ timeout' = timeout
            /\ timers' = timers
            /\ micro' = micro
            /\ admitted' = admitted]_vars
  /\ [][(self.ok /\ sleeping # {} /\ UserCalls) => Checked(calls')]_vars
  /\ []((sleeping # {} /\ Idle /\ \E tm \in timers : now >= tm.due) =>
          ENABLED TimerFires)

\* While the retry of the first call waits, the timer has admitted the item
\* of a later call.
C35_Witness ==
  /\ IsBounded
  /\ \E sl \in sleeping :
       /\ sl.fn = 1
       /\ now = sl.due - 1
       /\ Len(admitted) = 2
       /\ admitted[1].seq = sl.seq
       /\ admitted[2].at = now
       /\ admitted[2].at >= admitted[1].at + self.interval
       /\ lastIntervalStart = now
  /\ retryErrors[1] = 1

\* C36 (as claimed): when admitted work raises a RetryError with pauseQueue
\* (budget left) while an earlier pause is in effect, the queue stays paused
\* until the later of the two deadlines: on an event loop whose timers honour
\* their delay, once two pauses were raised nothing is admitted before the
\* later of their deadlines, whichever of the two waits is the shorter.
C36_LaterDeadlineWins ==
  [][(Len(admitted') > Len(admitted) /\ SumTo(pauseErrors, MaxCalls) = 2) =>
       now >= pausedUntil]_vars

\* C37: after every step of the event loop queue is non-empty if and only if
\* a wake-up timer is outstanding: no item is pending without a timer that
\* will run dequeue, and no timer fires on an empty queue.
C37_PendingIffTimer ==
  /\ [](queue # <<>> <=> timers # {})
  /\ [](queue # <<>> <=> timeout # NoTimer)
  /\ [][\A tm \in timers : Fires(tm) => queue # <<>>]_vars

\* The timer has fired when due and admitted the one pending item: the queue
\* is empty and no timer is left.
C37_Witness ==
  /\ IsBounded
  /\ self.maxPerInterval = 1
  /\ TotalRetryErrors = 0
  /\ calls = 2
  /\ Len(admitted) = 2
  /\ admitted[2].at = admitted[1].at + self.interval
  /\ admitted[2].at = now
  /\ Len(micro) = 1
  /\ queue = <<>>
  /\ timers = {}
  /\ timeout = NoTimer

\* C38: in a bounded queue lastIntervalStart never decreases, and every
\* assignment of it, by the rollover of an enqueue call or by dequeue, moves it
\* at least interval past its previous value.
C38_WindowStartAdvances ==
  [][IsBounded =>
       \/ lastIntervalStart' = lastIntervalStart /\ windowId' = windowId
       \/ /\ lastIntervalStart' >= lastIntervalStart + self.interval
          /\ lastIntervalStart' = now
          /\ windowId' = windowId + 1]_vars

\* Three windows of a bounded queue: the second started by the timer, exactly
\* interval after the first, the third more than interval after the second.
C38_Witness ==
  /\ IsBounded
  /\ TotalRetryErrors = 0
  /\ Len(admitted) = 3
  /\ admitted[2].start = admitted[1].start + self.interval
  /\ admitted[3].start > admitted[2].start + self.interval
  /\ admitted[3].window = admitted[1].window + 2
  /\ lastIntervalStart = admitted[3].start

\* The future of call c is settled.
Settled(c) == future[c].status \in {"resolved", "rejected"}
\* The queue is at rest: nothing pending, admitted or running, no timer, and
\* the future of every call made is settled.
AtRest ==
  /\ queue = <<>> /\ timers = {} /\ timeout = NoTimer
  /\ micro = <<>> /\ running = {} /\ sleeping = {}
  /\ \A c \in 1..calls : Settled(c)

\* C39: the work of an enqueue call is invoked at most maxRetries +
\* maxRetriesWithPauses + 1 times, whatever RetryErrors it raises, plain or
\* with pauseQueue; so when work always returns or raises and timers fire,
\* the queue comes to rest after every enqueue call: every future is settled,
\* nothing is pending and no timer is left.
C39_BoundedAttemptsThenRest ==
  /\ [](\A c \in Calls :
          invoked[c] <= self.maxRetries + self.maxRetriesWithPauses + 1)
  /\ []<>AtRest

\* Every call is settled and the queue is at rest; the work of one call was
\* invoked three times, raising a plain RetryError and one with pauseQueue
\* before it failed with a third RetryError.
C39_Witness ==
  /\ calls = MaxLiveCalls
  /\ AtRest
  /\ \E c \in Calls :
       /\ invoked[c] = self.maxRetries + self.maxRetriesWithPauses + 1
       /\ invoked[c] = 3
       /\ retryErrors[c] = 3
       /\ pauseErrors[c] = 1
       /\ FailedWithRetryError(c)

====
